---- MODULE Spec2Model ----
(***************************************************************************)
(* BillTracker (app.py): the AI extraction client, the notification        *)
(* dispatcher, the mailbox ingestion job, the due-date reminder job and    *)
(* the upload / pay / update_date / edit / delete / file-serving request   *)
(* handlers, over the bill store and the upload directory.                 *)
(*                                                                         *)
(* Text is modelled as sequences: a date string is a sequence of           *)
(* one-character strings, the service's answer is a sequence of tokens.    *)
(* Dates are proleptic Gregorian ordinals (datetime.date.toordinal).       *)
(***************************************************************************)
EXTENDS Integers, Sequences, FiniteSets, TLC

VARIABLES
    NOTIFY_URL,      \* app.py:59  process-wide fallback endpoint ("" = unset)
    GEMINI_API_KEY,  \* app.py:60  TRUE iff the extraction service is configured
    notify_url,      \* User.notify_url, per user ("" = unset)
    bills,           \* committed rows of table bill
    billFiles,       \* committed rows of table bill_file
    disk,            \* UPLOAD_FOLDER: stored filename -> content
    today,           \* datetime.now().date(), as an ordinal
    sec,             \* second within the day; (today, sec) is int(timestamp())
    mj,              \* process_mailbox in progress (ai_data and pend are its
                     \* locals between add and commit), and what the scan did so far:
                     \* new (bills committed), fresh (files written under a new
                     \* name), made / told (bills and notifications per message)
    up,              \* upload request in progress
    dl,              \* delete_bill request in progress
    sent,            \* send_notification calls made by the last step
    resp,            \* answer of the last request step
    jobSent,         \* history: notifications of check_due_dates today, per bill id
    deleted,         \* history: [id, names] of the bills whose delete has committed
    aiIn,            \* analyze_bill_ai: the call's inputs
    aiOut,           \* analyze_bill_ai: <<>> before the call, <<outcome>> after
    snIn             \* send_notification: the call's inputs

vars == <<NOTIFY_URL, GEMINI_API_KEY, notify_url, bills, billFiles, disk, today,
          sec, mj, up, dl, sent, resp, jobSent, deleted, aiIn, aiOut, snIn>>

-----------------------------------------------------------------------------
(* Users and endpoints *)

Users == {"u1", "u2"}
NoUser == "none"
NoUrl == ""
UserUrl(u) == IF u = "u1" THEN "url_u1" ELSE "url_u2"
GlobalUrl == "url_global"

-----------------------------------------------------------------------------
(* Dates: datetime.date ordinals and datetime.strptime(s, '%Y-%m-%d') *)

Digits == {"0", "1", "2", "3", "4", "5", "6", "7", "8", "9"}

DigitVal(c) ==
    CASE c = "0" -> 0 [] c = "1" -> 1 [] c = "2" -> 2 [] c = "3" -> 3
      [] c = "4" -> 4 [] c = "5" -> 5 [] c = "6" -> 6 [] c = "7" -> 7
      [] c = "8" -> 8 [] c = "9" -> 9

RECURSIVE NumVal(_)
NumVal(s) ==
    IF s = <<>> THEN 0
    ELSE 10 * NumVal(SubSeq(s, 1, Len(s) - 1)) + DigitVal(s[Len(s)])

IsLeap(y) == y % 4 = 0 /\ (y % 100 # 0 \/ y % 400 = 0)

DaysInMonth(y, m) ==
    IF m = 2 THEN (IF IsLeap(y) THEN 29 ELSE 28)
    ELSE IF m \in {4, 6, 9, 11} THEN 30 ELSE 31

RECURSIVE DaysBeforeMonth(_, _)
DaysBeforeMonth(y, m) ==
    IF m = 1 THEN 0 ELSE DaysBeforeMonth(y, m - 1) + DaysInMonth(y, m - 1)

DaysBeforeYear(y) ==
    (y - 1) * 365 + ((y - 1) \div 4) - ((y - 1) \div 100) + ((y - 1) \div 400)

Ordinal(y, m, d) == DaysBeforeYear(y) + DaysBeforeMonth(y, m) + d

\* %m is 1[0-2]|0[1-9]|[1-9]
MonthText(s) ==
    \/ Len(s) = 1 /\ s[1] \in Digits \ {"0"}
    \/ Len(s) = 2 /\ s[1] = "1" /\ s[2] \in {"0", "1", "2"}
    \/ Len(s) = 2 /\ s[1] = "0" /\ s[2] \in Digits \ {"0"}

\* %d is 3[01]|[12]\d|0[1-9]|[1-9]
DayText(s) ==
    \/ Len(s) = 1 /\ s[1] \in Digits \ {"0"}
    \/ Len(s) = 2 /\ s[1] = "3" /\ s[2] \in {"0", "1"}
    \/ Len(s) = 2 /\ s[1] \in {"1", "2"} /\ s[2] \in Digits
    \/ Len(s) = 2 /\ s[1] = "0" /\ s[2] \in Digits \ {"0"}

NoDate == [ok |-> FALSE, ord |-> 0]

\* The whole string must be <4 digits>-<month>-<day> and name a real date;
\* anything else is a ValueError (ok = FALSE).
ParseDateStrict(s) ==
    IF Len(s) # 10 \/ s[5] # "-" \/ s[8] # "-"
       \/ \E i \in {1, 2, 3, 4, 6, 7, 9, 10} : s[i] \notin Digits
    THEN NoDate
    ELSE LET y == NumVal(SubSeq(s, 1, 4))
             m == NumVal(SubSeq(s, 6, 7))
             d == NumVal(SubSeq(s, 9, 10))
         IN  IF y >= 1 /\ m \in 1..12 /\ d >= 1 /\ d <= DaysInMonth(y, m)
             THEN [ok |-> TRUE, ord |-> Ordinal(y, m, d)]
             ELSE NoDate

ParseDate(s) ==
    LET n == Len(s)
        P == {p \in {7, 8} : p < n /\ s[p] = "-"}
    IN  IF n < 8 \/ (\E i \in 1..4 : s[i] \notin Digits) \/ s[5] # "-" \/ P = {}
        THEN NoDate
        ELSE LET p  == CHOOSE q \in P : \A r \in P : q <= r
                 ms == SubSeq(s, 6, p - 1)
                 ds == SubSeq(s, p + 1, n)
             IN  IF ~MonthText(ms) \/ ~DayText(ds) THEN NoDate
                 ELSE LET y == NumVal(SubSeq(s, 1, 4))
                          m == NumVal(ms)
                          d == NumVal(ds)
                      IN  IF y >= 1 /\ d <= DaysInMonth(y, m)
                          THEN [ok |-> TRUE, ord |-> Ordinal(y, m, d)]
                          ELSE NoDate

-----------------------------------------------------------------------------
(* JSON values and the extraction service's answer *)

JNull == [t |-> "null", s |-> <<>>, n |-> 0]
JStr(str) == [t |-> "str", s |-> str, n |-> 0]
JNum(num) == [t |-> "num", s |-> <<>>, n |-> num]   \* amounts in cents

\* Python truthiness of a decoded JSON value
Truthy(v) == (v.t = "str" /\ v.s # <<>>) \/ (v.t = "num" /\ v.n # 0)

S_ISO == <<"2", "0", "2", "4", "-", "0", "3", "-", "1", "4">>
S_US == <<"0", "3", "/", "1", "4", "/", "2", "0", "2", "4">>
S_SHORT == <<"2", "0", "2", "4", "-", "3", "-", "1", "4">>
S_FEB30 == <<"2", "0", "2", "4", "-", "0", "2", "-", "3", "0">>
S_ACME == <<"A", "C", "M", "E">>
S_ABC == <<"a", "b", "c">>

\* A document is one complete JSON text: kind "object" is a JSON object with the
\* three keys (a missing key reads as null through dict.get), "array" is valid
\* JSON that is no object, "junk" is text that is not JSON.
Obj(title, date, amount) ==
    [kind |-> "object", title |-> title, date |-> date, amount |-> amount]
ArrayDoc == [kind |-> "array", title |-> JNull, date |-> JNull, amount |-> JNull]
JunkDoc == [kind |-> "junk", title |-> JNull, date |-> JNull, amount |-> JNull]

TitleVals == {JNull, JStr(S_ACME)}
DateVals == {JNull, JStr(<<>>), JStr(S_ISO), JStr(S_US), JStr(S_SHORT),
             JStr(S_FEB30), JNum(20240314)}
AmountVals == {JNull, JNum(0), JNum(12050), JStr(S_ABC)}

Docs == {Obj(t, d, a) : t \in TitleVals, d \in DateVals, a \in AmountVals}
            \cup {ArrayDoc, JunkDoc}

\* Tokens of the answer text: "bt" is ```, "json" the word json, "ws" white
\* space, "doc" a document.
Tok(k) == [k |-> k, doc |-> JunkDoc]
DocTok(d) == [k |-> "doc", doc |-> d]

Render(tmpl, d) ==
    CASE tmpl = "plain"      -> <<DocTok(d)>>
      [] tmpl = "padded"     -> <<Tok("ws"), DocTok(d), Tok("ws")>>
      [] tmpl = "fenced"     -> <<Tok("bt"), Tok("json"), Tok("ws"), DocTok(d),
                                  Tok("ws"), Tok("bt")>>
      [] tmpl = "fencedws"   -> <<Tok("ws"), Tok("bt"), Tok("json"), DocTok(d),
                                  Tok("bt"), Tok("ws")>>
      [] tmpl = "barefence"  -> <<Tok("bt"), Tok("ws"), DocTok(d), Tok("ws"),
                                  Tok("bt")>>
      [] tmpl = "unclosed"   -> <<Tok("bt"), Tok("json"), Tok("ws"), DocTok(d)>>
      [] tmpl = "twice"      -> <<DocTok(d), Tok("ws"), DocTok(d)>>
      [] tmpl = "empty"      -> <<>>

Templates == {"plain", "padded", "fenced", "fencedws", "barefence", "unclosed",
              "twice", "empty"}

RECURSIVE LStrip(_)
LStrip(t) == IF t # <<>> /\ t[1].k = "ws" THEN LStrip(Tail(t)) ELSE t

RECURSIVE RStrip(_)
RStrip(t) ==
    IF t # <<>> /\ t[Len(t)].k = "ws" THEN RStrip(SubSeq(t, 1, Len(t) - 1)) ELSE t

Strip(t) == RStrip(LStrip(t))

\* if ans.startswith('```json'): ans = ans[7:]
MutStripFront(ans) ==
    IF Len(ans) >= 1 /\ ans[1].k = "bt" THEN SubSeq(ans, 2, Len(ans)) ELSE ans

StripFront(ans) ==
    IF Len(ans) >= 2 /\ ans[1].k = "bt" /\ ans[2].k = "json"
    THEN SubSeq(ans, 3, Len(ans)) ELSE ans

\* if ans.endswith('```'): ans = ans[:-3]
StripBack(ans) ==
    IF Len(ans) >= 1 /\ ans[Len(ans)].k = "bt"
    THEN SubSeq(ans, 1, Len(ans) - 1) ELSE ans

\* json.loads: the text must be exactly one JSON document
JsonLoads(t) ==
    IF Len(t) = 1 /\ t[1].k = "doc" /\ t[1].doc.kind # "junk"
    THEN [ok |-> TRUE, data |-> t[1].doc]
    ELSE [ok |-> FALSE, data |-> JunkDoc]

-----------------------------------------------------------------------------
(* analyze_bill_ai *)

\* File extensions as written, and str.lower()
Exts == {"pdf", "PDF", "Pdf", "png", "PNG", "jpg", "jpeg", "JPG", "docx", "txt"}
NoExt == "<none>"       \* a name without a dot

Lower(e) ==
    CASE e \in {"PDF", "Pdf"} -> "pdf"
      [] e = "PNG" -> "png"
      [] e = "JPG" -> "jpg"
      [] OTHER -> e

MimeType(ext) ==
    IF ext \in {"jpg", "jpeg"} THEN "image/jpeg"
    ELSE IF ext = "png" THEN "image/png"
    ELSE IF ext = "pdf" THEN "application/pdf"
    ELSE "<none>"

\* What the call hands back: raised (an exception reaches the caller), or
\* None (some = FALSE), or the result dict.
AiNone == [raised |-> FALSE, some |-> FALSE, hasDate |-> FALSE, date |-> 0,
           title |-> JNull, amount |-> JNull]
AiRaise == [AiNone EXCEPT !.raised = TRUE]
AiResult(hasDate, date, title, amount) ==
    [raised |-> FALSE, some |-> TRUE, hasDate |-> hasDate, date |-> date,
     title |-> title, amount |-> amount]

\* Lines 193-208: the inner try. exc names the exception that leaves it.
ParseAnswer(ans) ==
    LET j == JsonLoads(Strip(ans))
    IN  IF ~j.ok THEN [exc |-> "none", ret |-> AiNone]      \* except JSONDecodeError
        ELSE IF j.data.kind # "object"
        THEN [exc |-> "AttributeError", ret |-> AiNone]     \* data.get on a non-dict
        ELSE IF Truthy(j.data.date) /\ j.data.date.t # "str"
        THEN [exc |-> "TypeError", ret |-> AiNone]          \* strptime of a non-str
        ELSE LET d == IF Truthy(j.data.date) THEN ParseDate(j.data.date.s)
                      ELSE NoDate                           \* except ValueError: pass
             IN  [exc |-> "none",
                  ret |-> AiResult(d.ok, d.ord, j.data.title, j.data.amount)]

\* Lines 149-208: the body of the outer try.
AiBody(ext, svc) ==
    IF ext = NoExt THEN [exc |-> "IndexError", ret |-> AiNone]
    ELSE IF MimeType(Lower(ext)) = "<none>" THEN [exc |-> "none", ret |-> AiNone]
    ELSE IF svc.error THEN [exc |-> "ServiceError", ret |-> AiNone]
    ELSE ParseAnswer(StripBack(StripFront(Strip(svc.text))))

\* Lines 210-219: except Exception ... return None
MutOuterExcept(r) == IF r.exc # "none" THEN AiRaise ELSE r.ret

OuterExcept(r) == IF r.exc # "none" THEN AiNone ELSE r.ret

analyze_bill_ai(key, ext, svc) ==
    IF ~key THEN AiNone ELSE OuterExcept(AiBody(ext, svc))

SvcError == [error |-> TRUE, tmpl |-> "empty", doc |-> JunkDoc, text |-> <<>>]
SvcAnswer(tmpl, d) ==
    [error |-> FALSE, tmpl |-> tmpl, doc |-> d, text |-> Render(tmpl, d)]

AiInputs ==
    [key : BOOLEAN, ext : Exts \cup {NoExt},
     svc : {SvcError} \cup {SvcAnswer(tp, d) : tp \in Templates, d \in Docs}]

-----------------------------------------------------------------------------
(* send_notification *)

Endpoints == {UserUrl(u) : u \in Users} \cup {GlobalUrl}

\* Lines 120-127 with the fallback added whatever was resolved before
MutResolveUrls(user) ==
    LET own == IF user # NoUser /\ notify_url[user] # NoUrl
               THEN <<notify_url[user]>> ELSE <<>>
    IN  IF NOTIFY_URL # NoUrl THEN Append(own, NOTIFY_URL) ELSE own

\* Lines 120-127: urls
ResolveUrls(user) ==
    LET own == IF user # NoUser /\ notify_url[user] # NoUrl
               THEN <<notify_url[user]>> ELSE <<>>
    IN  IF own = <<>> /\ NOTIFY_URL # NoUrl THEN Append(own, NOTIFY_URL) ELSE own

\* Lines 129-138: one attempt per url. down is the set of endpoints whose
\* delivery raises; the except clause swallows it (ok = FALSE).
send_notification(title, ref, user, down) ==
    LET urls == ResolveUrls(user)
    IN  [title |-> title, ref |-> ref, user |-> user, raised |-> FALSE,
         attempts |-> [i \in 1..Len(urls) |->
                          [url |-> urls[i], ok |-> urls[i] \notin down]]]

-----------------------------------------------------------------------------
(* Bounds and inputs of the request / job model *)

MaxSec == 1        \* seconds the clock advances within a day
MaxDays == 1       \* days the clock advances
MaxScans == 2      \* process_mailbox invocations
MaxUploads == 2    \* upload requests
MaxJobRuns == 2    \* check_due_dates invocations per day

DEFAULT_DUE_DAYS == 30
SUBJECT_MAX == 100

Day0 == Ordinal(2024, 3, 11)

S_D0 == <<"2", "0", "2", "4", "-", "0", "3", "-", "1", "1">>
S_D5 == <<"2", "0", "2", "4", "-", "0", "3", "-", "1", "6">>

\* A text of n characters, identified by s
Text(s, n) == [s |-> s, n |-> n]
NoText == Text(<<>>, 0)

\* s[:k]
Prefix(t, k) == IF t.n > k THEN Text(t.s, k) ELSE t

\* Stored filenames: "{ts}_{name}" (mail) and "manual_{ts}_{idx}.{ext}" (upload);
\* ts is the pair (d, s).
MailName(d, s, stem, ext) ==
    [kind |-> "mail", d |-> d, s |-> s, idx |-> 0, stem |-> stem, ext |-> ext]
ManualName(d, s, idx, ext) ==
    [kind |-> "manual", d |-> d, s |-> s, idx |-> idx, stem |-> "", ext |-> ext]
NoName == [kind |-> "none", d |-> 0, s |-> 0, idx |-> 0, stem |-> "", ext |-> ""]

\* att.filename and att.filename.lower().endswith('.pdf')
IsPdfAttachment(att) == att.ext # NoExt /\ Lower(att.ext) = "pdf"

ALLOWED_EXTENSIONS == {"pdf", "png", "jpg", "jpeg"}

allowed_file(f) == f.ext # NoExt /\ Lower(f.ext) \in ALLOWED_EXTENSIONS

\* bad: the name cannot be opened under UPLOAD_FOLDER (a path separator, an
\* over-long name), so open() raises.
Att(stem, ext, bad, payload) ==
    [stem |-> stem, ext |-> ext, bad |-> bad, payload |-> payload]
Msg(subject, atts) == [subject |-> subject, atts |-> atts]

SubjShort == Text(<<"i", "n", "v">>, 20)
SubjLong == Text(<<"l", "o", "n", "g">>, 150)

Mailboxes ==
    { <<Msg(SubjShort, <<Att("inv", "pdf", FALSE, "p1")>>)>>,
      <<Msg(SubjLong, <<Att("inv", "PDF", FALSE, "p2")>>)>>,
      <<Msg(SubjShort, <<Att("doc", "docx", FALSE, "p3")>>)>>,
      <<Msg(SubjShort, <<Att("inv", "pdf", FALSE, "p1"),
                         Att("sub/x", "pdf", TRUE, "p4")>>),
        Msg(SubjLong, <<>>)>>,
      <<Msg(SubjShort, <<Att("inv", "pdf", FALSE, "p1"),
                         Att("doc", "docx", FALSE, "p3")>>),
        Msg(SubjLong, <<Att("inv", "pdf", FALSE, "p5")>>)>> }

\* What the extraction service answers during ingestion and upload
MainSvc ==
    { SvcError,
      SvcAnswer("fenced", Obj(JStr(S_ACME), JStr(S_ISO), JNum(12050))),
      SvcAnswer("plain", Obj(JNull, JStr(S_US), JNum(0))) }

UpFile(ext, content) == [ext |-> ext, content |-> content]

UploadForms ==
    { <<UpFile("pdf", "c1"), UpFile("png", "c2")>>,
      <<UpFile("PNG", "c3"), UpFile("png", "c4")>>,
      <<UpFile("txt", "c5")>> }

FormDates == {<<>>, S_D0, S_ISO, S_D5}
FormTitles == {NoText, Text(<<"r", "e", "n", "t">>, 4)}

S_12_5 == <<"1", "2", ".", "5">>
EditDates == {S_D5, S_US}

\* The edit form: title, due_date, amount
EditForm(title, dateStr, amountStr) ==
    [title |-> title, due_date |-> dateStr, amount |-> amountStr]
EditForms ==
    { EditForm(Text(<<"r", "e", "n", "t">>, 4), S_D5, S_12_5),
      EditForm(NoText, S_US, S_ABC) }

-----------------------------------------------------------------------------
(* Store helpers *)

Max(S) == CHOOSE x \in S : \A y \in S : y <= x
Min(S) == CHOOSE x \in S : \A y \in S : x <= y

\* INTEGER PRIMARY KEY without AUTOINCREMENT: the largest rowid plus one
NextBillId == IF bills = {} THEN 1 ELSE Max({b.id : b \in bills}) + 1
NextFileId == IF billFiles = {} THEN 1 ELSE Max({f.id : f \in billFiles}) + 1

RECURSIVE SortedSeq(_)
SortedSeq(S) == IF S = {} THEN <<>> ELSE <<Min(S)>> \o SortedSeq(S \ {Min(S)})

OnDisk(name) == name \in DOMAIN disk
Write(d, name, content) == (name :> content) @@ d
Remove(d, names) == [n \in (DOMAIN d) \ names |-> d[n]]

NewBill(id, title, filename, amount, hasDue, due, user) ==
    [id |-> id, title |-> title, filename |-> filename, amount |-> amount,
     status |-> "offen", hasDue |-> hasDue, due_date |-> due, user_id |-> user]
NoBill == NewBill(0, NoText, NoName, JNull, FALSE, 0, NoUser)

FilesOf(b) == {f \in billFiles : f.bill_id = b.id}

NoResp == [op |-> "none", user |-> NoUser, id |-> 0, name |-> NoName, code |-> 0]
Resp(op, user, id, name, code) ==
    [op |-> op, user |-> user, id |-> id, name |-> name, code |-> code]

\* The database write lock: upload holds an open transaction from its flush to
\* its commit, and other writers wait for it.
DbFree == up.pc = "idle"

cfg == <<NOTIFY_URL, GEMINI_API_KEY, notify_url>>
clock == <<today, sec>>
pure == <<aiIn, aiOut, snIn>>
DownSets == {{}, Endpoints}
MainDown == {{}}

-----------------------------------------------------------------------------
(* The clock *)

Tick ==
    /\ sec < MaxSec
    /\ sec' = sec + 1
    /\ sent' = <<>> /\ resp' = NoResp
    /\ UNCHANGED <<cfg, bills, billFiles, disk, today, mj, up, dl, jobSent,
                   deleted, pure>>

NextDay ==
    /\ today < Day0 + MaxDays
    /\ today' = today + 1 /\ sec' = 0
    /\ jobSent' = [runs |-> 0, cnt |-> <<>>]
    /\ sent' = <<>> /\ resp' = NoResp
    /\ UNCHANGED <<cfg, bills, billFiles, disk, mj, up, dl, deleted, pure>>

-----------------------------------------------------------------------------
(* process_mailbox, one step per attachment write, commit and end of message *)

Zeros(n) == [i \in 1..n |-> 0]

MailIdle ==
    [pc |-> "idle", runs |-> 0, owner |-> NoUser, msgs |-> <<>>, mi |-> 1, ai |-> 1,
     found_file |-> FALSE, ai_data |-> AiNone, pend |-> NoBill,
     new |-> <<>>, fresh |-> 0, made |-> <<>>, told |-> <<>>, aborted |-> FALSE]

\* Lines 225-226: login and fetch of the unseen messages. A failed login raises
\* into the except of line 266 before any message is seen.
MailStart(owner, box, loginOk) ==
    /\ mj.pc = "idle" /\ mj.runs < MaxScans
    /\ LET msgs == IF loginOk THEN box ELSE <<>>
       IN  mj' = [MailIdle EXCEPT !.pc = IF msgs = <<>> THEN "idle" ELSE "att",
                                  !.runs = mj.runs + 1, !.owner = owner,
                                  !.msgs = msgs, !.made = Zeros(Len(msgs)),
                                  !.told = Zeros(Len(msgs)), !.aborted = ~loginOk]
    /\ sent' = <<>> /\ resp' = NoResp
    /\ UNCHANGED <<cfg, bills, billFiles, disk, clock, up, dl, jobSent, deleted, pure>>

\* Lines 236-256: the fields of the new Bill
MailBill(subject, ai, name, owner, day) ==
    NewBill(0,
            IF ai.some /\ Truthy(ai.title) THEN Text(ai.title.s, Len(ai.title.s))
            ELSE Prefix(subject, SUBJECT_MAX),
            name,
            IF ai.some /\ Truthy(ai.amount) THEN ai.amount ELSE JNull,
            TRUE,
            IF ai.some /\ ai.hasDate THEN ai.date ELSE day + DEFAULT_DUE_DAYS,
            owner)

\* Lines 229-257: one attachment up to db.session.add
MailAttachment(svc) ==
    /\ mj.pc = "att" /\ mj.mi <= Len(mj.msgs) /\ mj.ai <= Len(mj.msgs[mj.mi].atts)
    /\ LET msg  == mj.msgs[mj.mi]
           att  == msg.atts[mj.ai]
           name == MailName(today, sec, att.stem, att.ext)
           ai   == analyze_bill_ai(GEMINI_API_KEY, att.ext, svc)
       IN  IF ~IsPdfAttachment(att)
           THEN /\ mj' = [mj EXCEPT !.ai = mj.ai + 1]
                /\ disk' = disk
           ELSE IF att.bad
           THEN \* open() raises: the except of line 266 ends the scan
                /\ mj' = [mj EXCEPT !.pc = "idle", !.aborted = TRUE]
                /\ disk' = disk
           ELSE /\ disk' = Write(disk, name, att.payload)
                /\ mj' = [mj EXCEPT
                     !.pc = "commit",
                     !.ai_data = ai,
                     !.pend = MailBill(msg.subject, ai, name, mj.owner, today),
                     !.fresh = mj.fresh + (IF OnDisk(name) THEN 0 ELSE 1)]
    /\ sent' = <<>> /\ resp' = NoResp
    /\ UNCHANGED <<cfg, bills, billFiles, clock, up, dl, jobSent, deleted, pure>>

\* The unique constraint on Bill.filename decides the commit
CommitFails(b) == \E x \in bills : x.filename = b.filename

\* Lines 258-262: commit, or roll back the one record
MailCommit ==
    /\ mj.pc = "commit" /\ DbFree
    /\ IF CommitFails(mj.pend)
       THEN /\ bills' = bills
            /\ mj' = [mj EXCEPT !.pc = "att", !.ai = mj.ai + 1, !.pend = NoBill,
                                !.ai_data = AiNone]
       ELSE LET b == [mj.pend EXCEPT !.id = NextBillId]
            IN  /\ bills' = bills \cup {b}
                /\ mj' = [mj EXCEPT !.pc = "att", !.ai = mj.ai + 1, !.pend = NoBill,
                                    !.ai_data = AiNone, !.found_file = TRUE,
                                    !.new = Append(mj.new, b),
                                    !.made[mj.mi] = mj.made[mj.mi] + 1]
    /\ sent' = <<>> /\ resp' = NoResp
    /\ UNCHANGED <<cfg, billFiles, disk, clock, up, dl, jobSent, deleted, pure>>

\* Lines 264-265, and the step to the next message
MailEndMessage(down) ==
    /\ mj.pc = "att" /\ mj.mi <= Len(mj.msgs) /\ mj.ai > Len(mj.msgs[mj.mi].atts)
    /\ sent' = IF mj.found_file
               THEN <<send_notification("Neue Rechnung", mj.mi, mj.owner, down)>>
               ELSE <<>>
    /\ mj' = [mj EXCEPT !.pc = IF mj.mi = Len(mj.msgs) THEN "idle" ELSE "att",
                        !.mi = mj.mi + 1, !.ai = 1, !.found_file = FALSE,
                        !.told[mj.mi] = mj.told[mj.mi] + (IF mj.found_file THEN 1 ELSE 0)]
    /\ resp' = NoResp
    /\ UNCHANGED <<cfg, bills, billFiles, disk, clock, up, dl, jobSent, deleted, pure>>

-----------------------------------------------------------------------------
(* upload: the flush, the file writes and the analysis; then the commit *)

UploadIdle == [pc |-> "idle", n |-> 0, user |-> NoUser, bill |-> NoBill, names |-> <<>>]

PROCESSING == Text(<<"W", "i", "r", "d">>, 19)     \* "Wird verarbeitet..."

\* Lines 513-520: what the analysis overrides
UploadBill(b, formTitle, ai) ==
    IF ~ai.some THEN b
    ELSE [b EXCEPT
            !.hasDue = b.hasDue \/ ai.hasDate,
            !.due_date = IF ~b.hasDue /\ ai.hasDate THEN ai.date ELSE b.due_date,
            !.title = IF (b.title = PROCESSING \/ formTitle = NoText) /\ Truthy(ai.title)
                      THEN Text(ai.title.s, Len(ai.title.s)) ELSE b.title,
            !.amount = IF Truthy(ai.amount) THEN ai.amount ELSE b.amount]

\* manual_{ts}_{i}.{ext}, i counted from 0
SaveNames(valid) ==
    [i \in 1..Len(valid) |-> ManualName(today, sec, i - 1, Lower(valid[i].ext))]

RECURSIVE WriteAll(_, _, _)
WriteAll(d, names, valid) ==
    IF names = <<>> THEN d
    ELSE WriteAll(Write(d, names[1], valid[1].content), Tail(names), Tail(valid))

\* Lines 477-520
UploadBegin(u, form, formTitle, dateStr, svc) ==
    /\ up.pc = "idle" /\ up.n < MaxUploads
    /\ LET due   == IF dateStr = <<>> THEN NoDate ELSE ParseDate(dateStr)
           valid == SelectSeq(form, allowed_file)
           names == SaveNames(valid)
           b0    == NewBill(NextBillId,
                            IF formTitle = NoText THEN PROCESSING ELSE formTitle,
                            names[1], JNull, due.ok, due.ord, u)
       IN  IF dateStr # <<>> /\ ~due.ok
           THEN \* strptime raises ValueError
                /\ resp' = Resp("upload", u, 0, NoName, 500)
                /\ up' = [up EXCEPT !.n = up.n + 1]
                /\ disk' = disk
           ELSE IF valid = <<>>
           THEN /\ resp' = Resp("upload", u, 0, NoName, 302)
                /\ up' = [up EXCEPT !.n = up.n + 1]
                /\ disk' = disk
           ELSE IF CommitFails(b0)
           THEN \* the flush of line 497 raises IntegrityError
                /\ resp' = Resp("upload", u, 0, names[1], 500)
                /\ up' = [up EXCEPT !.n = up.n + 1]
                /\ disk' = disk
           ELSE /\ resp' = NoResp
                /\ disk' = WriteAll(disk, names, valid)
                /\ up' = [pc |-> "commit", n |-> up.n + 1, user |-> u,
                          bill |-> UploadBill(b0, formTitle,
                                     analyze_bill_ai(GEMINI_API_KEY, names[1].ext, svc)),
                          names |-> names]
    /\ sent' = <<>>
    /\ UNCHANGED <<cfg, bills, billFiles, clock, mj, dl, jobSent, deleted, pure>>

\* Line 522
UploadCommit ==
    /\ up.pc = "commit"
    /\ bills' = bills \cup {up.bill}
    /\ billFiles' = billFiles \cup
          {[id |-> NextFileId + i - 1, bill_id |-> up.bill.id, filename |-> up.names[i]]
              : i \in 1..Len(up.names)}
    /\ up' = [UploadIdle EXCEPT !.n = up.n]
    /\ resp' = Resp("upload", up.user, up.bill.id, up.bill.filename, 302)
    /\ sent' = <<>>
    /\ UNCHANGED <<cfg, disk, clock, mj, dl, jobSent, deleted, pure>>

-----------------------------------------------------------------------------
(* delete_bill: the lookup and the file removals; then the commit *)

DeleteIdle == [pc |-> "idle", user |-> NoUser, id |-> 0, names |-> {}]

\* Lines 584-587 with the BillFile names left out
MutFilesToDelete(b) == {b.filename}

\* Lines 584-587
FilesToDelete(b) == {b.filename} \cup {f.filename : f \in FilesOf(b)}

\* The lookup with the user left out of the filter
MutOwned(u, id) == {b \in bills : b.id = id}

\* Bill.query.filter_by(id=id, user_id=current_user.id)
Owned(u, id) == {b \in bills : b.id = id /\ b.user_id = u}

KnownIds == {b.id : b \in bills} \cup {d.id : d \in deleted} \cup {NextBillId}

\* Lines 581-593
DeleteBegin(u, id) ==
    /\ dl.pc = "idle"
    /\ IF Owned(u, id) = {}
       THEN /\ resp' = Resp("delete", u, id, NoName, 404)
            /\ UNCHANGED <<disk, dl>>
       ELSE LET b == CHOOSE x \in Owned(u, id) : TRUE
            IN  /\ disk' = Remove(disk, FilesToDelete(b))
                /\ dl' = [pc |-> "commit", user |-> u, id |-> id,
                          names |-> FilesToDelete(b)]
                /\ resp' = NoResp
    /\ sent' = <<>>
    /\ UNCHANGED <<cfg, bills, billFiles, clock, mj, up, jobSent, deleted, pure>>

\* Lines 595-596: the bill goes, and its BillFile rows by the cascade of line 87
DeleteCommit ==
    /\ dl.pc = "commit" /\ DbFree
    /\ bills' = {b \in bills : b.id # dl.id}
    /\ billFiles' = {f \in billFiles : f.bill_id # dl.id}
    /\ deleted' = deleted \cup {[id |-> dl.id, names |-> dl.names]}
    /\ dl' = DeleteIdle
    /\ resp' = Resp("delete", dl.user, dl.id, NoName, 302)
    /\ sent' = <<>>
    /\ UNCHANGED <<cfg, disk, clock, mj, up, jobSent, pure>>

-----------------------------------------------------------------------------
(* pay and serve_file *)

\* Lines 538-541
Pay(u, id) ==
    /\ DbFree
    /\ IF Owned(u, id) = {}
       THEN /\ resp' = Resp("pay", u, id, NoName, 404)
            /\ bills' = bills
       ELSE /\ bills' = {IF b.id = id THEN [b EXCEPT !.status = "bezahlt"] ELSE b
                            : b \in bills}
            /\ resp' = Resp("pay", u, id, NoName, 302)
    /\ sent' = <<>>
    /\ UNCHANGED <<cfg, billFiles, disk, clock, mj, up, dl, jobSent, deleted, pure>>

\* Lines 528-533. strptime of a malformed date raises ValueError (500).
UpdateDate(u, id, dateStr) ==
    /\ DbFree
    /\ LET due == IF dateStr = <<>> THEN NoDate ELSE ParseDate(dateStr)
       IN  IF Owned(u, id) = {}
           THEN /\ resp' = Resp("update_date", u, id, NoName, 404)
                /\ bills' = bills
           ELSE IF dateStr = <<>>
           THEN /\ resp' = Resp("update_date", u, id, NoName, 302)
                /\ bills' = bills
           ELSE IF ~due.ok
           THEN /\ resp' = Resp("update_date", u, id, NoName, 500)
                /\ bills' = bills
           ELSE /\ bills' = {IF b.id = id
                             THEN [b EXCEPT !.hasDue = TRUE, !.due_date = due.ord]
                             ELSE b : b \in bills}
                /\ resp' = Resp("update_date", u, id, NoName, 302)
    /\ sent' = <<>>
    /\ UNCHANGED <<cfg, billFiles, disk, clock, mj, up, dl, jobSent, deleted, pure>>

\* float(amount_str) for texts of the form [-]digits[.digits]; the value in
\* cents, fractions cut to two places. Any other text is a ValueError.
NoAmount == [ok |-> FALSE, cents |-> 0]

ParseFloat(s) ==
    LET neg  == s # <<>> /\ s[1] = "-"
        body == IF neg THEN Tail(s) ELSE s
        dots == {i \in 1..Len(body) : body[i] = "."}
        p    == IF dots = {} THEN Len(body) + 1 ELSE Min(dots)
        int  == SubSeq(body, 1, p - 1)
        frac == SubSeq(body, p + 1, Len(body))
        f2   == SubSeq(frac \o <<"0", "0">>, 1, 2)
    IN  IF \/ Cardinality(dots) > 1
           \/ int = <<>> /\ frac = <<>>
           \/ \E i \in 1..Len(int) : int[i] \notin Digits
           \/ \E i \in 1..Len(frac) : frac[i] \notin Digits
        THEN NoAmount
        ELSE [ok |-> TRUE,
              cents |-> (IF neg THEN -1 ELSE 1) * (100 * NumVal(int) + NumVal(f2))]

\* Lines 561-572: the fields a form overrides
EditedBill(b, title, dateStr, amountStr) ==
    LET due == IF dateStr = <<>> THEN NoDate ELSE ParseDate(dateStr)
        amt == IF amountStr = <<>> THEN NoAmount ELSE ParseFloat(amountStr)
    IN  [b EXCEPT
            !.title = IF title # NoText THEN title ELSE b.title,
            !.hasDue = b.hasDue \/ due.ok,
            !.due_date = IF due.ok THEN due.ord ELSE b.due_date,
            !.amount = IF amt.ok THEN JNum(amt.cents) ELSE b.amount]

\* Lines 556-576
EditBill(u, id, title, dateStr, amountStr) ==
    /\ DbFree
    /\ IF Owned(u, id) = {}
       THEN /\ resp' = Resp("edit", u, id, NoName, 404)
            /\ bills' = bills
       ELSE /\ bills' = {IF b.id = id THEN EditedBill(b, title, dateStr, amountStr)
                         ELSE b : b \in bills}
            /\ resp' = Resp("edit", u, id, NoName, 302)
    /\ sent' = <<>>
    /\ UNCHANGED <<cfg, billFiles, disk, clock, mj, up, dl, jobSent, deleted, pure>>

KnownNames ==
    DOMAIN disk \cup {b.filename : b \in bills} \cup {f.filename : f \in billFiles}
        \cup {MailName(Day0, 0, "ghost", "pdf")}

\* Lines 603-609: the bills the two .first() queries can resolve the name to.
\* Without ORDER BY any matching BillFile row may come first.
ResolveBill(name) ==
    LET main == {b \in bills : b.filename = name}
    IN  IF main # {} THEN main
        ELSE {b \in bills : \E f \in billFiles : f.filename = name /\ f.bill_id = b.id}

\* Lines 611-615
ServeCode(u, name, hit) ==
    IF hit = {} THEN 404
    ELSE IF (CHOOSE b \in hit : TRUE).user_id # u THEN 403
    ELSE IF OnDisk(name) THEN 200 ELSE 404

\* Lines 603-615; hit is the bill the queries resolved, {} when none
ServeFile(u, name) ==
    /\ \E hit \in (IF ResolveBill(name) = {} THEN {{}}
                   ELSE {{b} : b \in ResolveBill(name)}) :
          resp' = Resp("serve", u, IF hit = {} THEN 0 ELSE (CHOOSE b \in hit : TRUE).id,
                       name, ServeCode(u, name, hit))
    /\ sent' = <<>>
    /\ UNCHANGED <<cfg, bills, billFiles, disk, clock, mj, up, dl, jobSent, deleted, pure>>

-----------------------------------------------------------------------------
(* check_due_dates *)

\* Lines 290-296 for one bill with the reminder sent from three days on
MutDueNoticeWithin3(b, down) ==
    LET days == b.due_date - today
    IN  IF ~b.hasDue THEN <<>>
        ELSE IF days <= 0 THEN <<send_notification("UEBERFAELLIG", b.id, b.user_id, down)>>
        ELSE IF days <= 3 THEN <<send_notification("Erinnerung", b.id, b.user_id, down)>>
        ELSE <<>>

\* Lines 290-296 for one bill, remembering what was sent today
MutDueNoticeOnce(b, down) ==
    LET days == b.due_date - today
        seen == b.id \in DOMAIN jobSent.cnt
    IN  IF ~b.hasDue \/ seen THEN <<>>
        ELSE IF days <= 0 THEN <<send_notification("UEBERFAELLIG", b.id, b.user_id, down)>>
        ELSE IF days = 3 THEN <<send_notification("Erinnerung", b.id, b.user_id, down)>>
        ELSE <<>>

\* Lines 290-296 for one bill
DueNotice(b, down) ==
    LET days == b.due_date - today
    IN  IF ~b.hasDue THEN <<>>
        ELSE IF days <= 0 THEN <<send_notification("UEBERFAELLIG", b.id, b.user_id, down)>>
        ELSE IF days = 3 THEN <<send_notification("Erinnerung", b.id, b.user_id, down)>>
        ELSE <<>>

\* Line 287
OpenBills == {b \in bills : b.status = "offen"}

RECURSIVE DueNotices(_, _)
DueNotices(ids, down) ==
    IF ids = <<>> THEN <<>>
    ELSE DueNotice(CHOOSE b \in OpenBills : b.id = ids[1], down)
            \o DueNotices(Tail(ids), down)

Count(id) == IF id \in DOMAIN jobSent.cnt THEN jobSent.cnt[id] ELSE 0

\* Lines 284-296
CheckDueDates(down) ==
    /\ jobSent.runs < MaxJobRuns
    /\ sent' = DueNotices(SortedSeq({b.id : b \in OpenBills}), down)
    /\ jobSent' = [runs |-> jobSent.runs + 1,
                   cnt |-> LET hit == {sent'[i].ref : i \in 1..Len(sent')}
                           IN  [id \in DOMAIN jobSent.cnt \cup hit |->
                                   Count(id) + (IF id \in hit THEN 1 ELSE 0)]]
    /\ resp' = Resp("check_due_dates", NoUser, 0, NoName, 0)
    /\ UNCHANGED <<cfg, bills, billFiles, disk, clock, mj, up, dl, deleted, pure>>

-----------------------------------------------------------------------------
(* The application *)

AiIdle == [key |-> FALSE, ext |-> NoExt, svc |-> SvcError]
SnIdle == [user |-> NoUser, down |-> {}]

Init ==
    /\ NOTIFY_URL = GlobalUrl
    /\ GEMINI_API_KEY = TRUE
    /\ notify_url = [u \in Users |-> IF u = "u1" THEN UserUrl(u) ELSE NoUrl]
    /\ bills = {} /\ billFiles = {} /\ disk = <<>>
    /\ today = Day0 /\ sec = 0
    /\ mj = MailIdle /\ up = UploadIdle /\ dl = DeleteIdle
    /\ sent = <<>> /\ resp = NoResp
    /\ jobSent = [runs |-> 0, cnt |-> <<>>]
    /\ deleted = {}
    /\ aiIn = AiIdle /\ aiOut = <<>> /\ snIn = SnIdle

Clock == Tick \/ NextDay

MailJobOf(boxes, svcs) ==
    \/ \E u \in Users, box \in boxes, ok \in BOOLEAN : MailStart(u, box, ok)
    \/ \E svc \in svcs : MailAttachment(svc)
    \/ MailCommit
    \/ \E down \in MainDown : MailEndMessage(down)

MailJob == MailJobOf(Mailboxes, MainSvc)

UploadOf(forms, titles, dates, svcs) ==
    \/ \E u \in Users, form \in forms, t \in titles, d \in dates, svc \in svcs :
          UploadBegin(u, form, t, d, svc)
    \/ UploadCommit

Upload == UploadOf(UploadForms, FormTitles, FormDates, MainSvc)

Delete ==
    \/ \E u \in Users, id \in KnownIds : DeleteBegin(u, id)
    \/ DeleteCommit

Edits ==
    \/ \E u \in Users, id \in KnownIds, d \in EditDates : UpdateDate(u, id, d)
    \/ \E u \in Users, id \in KnownIds, f \in EditForms :
          EditBill(u, id, f.title, f.due_date, f.amount)

Requests ==
    \/ \E u \in Users, id \in KnownIds : Pay(u, id)
    \/ Edits
    \/ \E u \in Users, name \in KnownNames : ServeFile(u, name)

ReminderJob == \E down \in MainDown : CheckDueDates(down)

Next == Clock \/ MailJob \/ Upload \/ Delete \/ Requests \/ ReminderJob

Spec == Init /\ [][Next]_vars

\* The ingestion job next to deletions
NextMail == Tick \/ MailJob \/ Delete
SpecMail == Init /\ [][NextMail]_vars

\* The request handlers
NextWeb ==
    \/ Tick
    \/ UploadOf(UploadForms, {NoText}, {<<>>}, {SvcError})
    \/ Delete
    \/ \E u \in Users, name \in KnownNames : ServeFile(u, name)
SpecWeb == Init /\ [][NextWeb]_vars

\* The reminder job over uploaded bills
NextJob ==
    \/ NextDay
    \/ UploadOf({<<UpFile("pdf", "c1")>>}, {NoText}, {<<>>, S_D0},
                {SvcError, SvcAnswer("plain", Obj(JNull, JStr(S_ISO), JNull))})
    \/ \E u \in Users, id \in KnownIds : Pay(u, id)
    \/ ReminderJob
SpecJob == Init /\ [][NextJob]_vars

\* The three writers of the upload directory: ingestion, upload and deletion
StoreBox == <<Msg(SubjShort, <<Att("inv", "pdf", FALSE, "p1")>>)>>

NextStore ==
    \/ Tick
    \/ \E u \in Users : MailStart(u, StoreBox, TRUE)
    \/ MailAttachment(SvcError)
    \/ MailCommit
    \/ MailEndMessage({})
    \/ UploadOf({<<UpFile("pdf", "c1")>>}, {NoText}, {<<>>}, {SvcError})
    \/ Delete
SpecStore == Init /\ [][NextStore]_vars

\* The handlers that change or remove a bill, over uploaded bills
NextOwn ==
    \/ UploadOf({<<UpFile("pdf", "c1")>>, <<UpFile("png", "c2")>>}, {NoText},
                {<<>>}, {SvcError})
    \/ \E u \in Users, id \in KnownIds : Pay(u, id)
    \/ Edits
    \/ Delete
SpecOwn == Init /\ [][NextOwn]_vars

-----------------------------------------------------------------------------
(* analyze_bill_ai and send_notification on their own: every input, one call *)

Quiet ==
    /\ bills = {} /\ billFiles = {} /\ disk = <<>>
    /\ today = Day0 /\ sec = 0
    /\ mj = MailIdle /\ up = UploadIdle /\ dl = DeleteIdle
    /\ resp = NoResp
    /\ jobSent = [runs |-> 0, cnt |-> <<>>]
    /\ deleted = {}

InitAI ==
    /\ Quiet
    /\ aiIn \in AiInputs
    /\ GEMINI_API_KEY = aiIn.key
    /\ NOTIFY_URL = NoUrl
    /\ notify_url = [u \in Users |-> NoUrl]
    /\ aiOut = <<>> /\ snIn = SnIdle /\ sent = <<>>

AiCall ==
    /\ aiOut = <<>>
    /\ aiOut' = <<analyze_bill_ai(GEMINI_API_KEY, aiIn.ext, aiIn.svc)>>
    /\ UNCHANGED <<cfg, bills, billFiles, disk, clock, mj, up, dl, sent, resp,
                   jobSent, deleted, aiIn, snIn>>

SpecAI == InitAI /\ [][AiCall]_vars

InitNotify ==
    /\ Quiet
    /\ NOTIFY_URL \in {NoUrl, GlobalUrl}
    /\ GEMINI_API_KEY = FALSE
    /\ notify_url \in [Users -> {NoUrl, "url_u1", "url_u2"}]
    /\ snIn \in [user : Users \cup {NoUser}, down : SUBSET Endpoints]
    /\ aiIn = AiIdle /\ aiOut = <<>> /\ sent = <<>>

SnCall ==
    /\ sent = <<>>
    /\ sent' = <<send_notification("Test", 0, snIn.user, snIn.down)>>
    /\ UNCHANGED <<cfg, bills, billFiles, disk, clock, mj, up, dl, resp,
                   jobSent, deleted, pure>>

SpecNotify == InitNotify /\ [][SnCall]_vars

-----------------------------------------------------------------------------
(* Claims *)

NoticesFor(id) == {i \in 1..Len(sent) : sent[i].ref = id}
DaysLeft(b) == b.due_date - today
Qualifies(b) == b.status = "offen" /\ b.hasDue /\ (DaysLeft(b) <= 0 \/ DaysLeft(b) = 3)

\* C1: an invocation of check_due_dates dispatches, for each bill, exactly one
\* notification when the bill is open, has a due date and days-remaining is <= 0
\* (kind overdue) or exactly 3 (kind reminder), addressed to the bill's owner;
\* paid bills, bills without a due date and every other days-remaining value get
\* none, and nothing is dispatched for anything that is not a bill.
C1_ReminderDispatch ==
    resp.op = "check_due_dates" =>
        /\ \A b \in bills :
              IF Qualifies(b)
              THEN /\ Cardinality(NoticesFor(b.id)) = 1
                   /\ \A i \in NoticesFor(b.id) :
                         /\ sent[i].user = b.user_id
                         /\ sent[i].title = IF DaysLeft(b) <= 0 THEN "UEBERFAELLIG"
                                            ELSE "Erinnerung"
              ELSE NoticesFor(b.id) = {}
        /\ \A i \in 1..Len(sent) : \E b \in bills : b.id = sent[i].ref

\* One run told the owner of an open overdue bill and passed over a paid
\* bill that is just as overdue
C1_Witness ==
    /\ resp.op = "check_due_dates"
    /\ \E b \in bills :
          /\ Qualifies(b) /\ DaysLeft(b) <= 0
          /\ \E i \in NoticesFor(b.id) : sent[i].title = "UEBERFAELLIG"
    /\ \E b \in bills :
          b.status = "bezahlt" /\ b.hasDue /\ DaysLeft(b) <= 0 /\ NoticesFor(b.id) = {}

\* C3: send_notification makes one delivery attempt per resolved endpoint: the
\* user's personal endpoint alone when there is one, else the process-wide
\* fallback alone when it is configured, else none; and it never raises.
C3_OneAttemptPerEndpoint ==
    sent # <<>> =>
        LET r == sent[1]
            u == snIn.user
            personal == u # NoUser /\ notify_url[u] # NoUrl
        IN  /\ ~r.raised
            /\ [i \in 1..Len(r.attempts) |-> r.attempts[i].url]
                 = IF personal THEN <<notify_url[u]>>
                   ELSE IF NOTIFY_URL # NoUrl THEN <<NOTIFY_URL>>
                   ELSE <<>>

\* A user with a personal endpoint while the fallback is configured: one
\* attempt, to the personal endpoint, which failed without an error
C3_Witness ==
    /\ sent # <<>>
    /\ snIn.user # NoUser /\ notify_url[snIn.user] # NoUrl /\ NOTIFY_URL # NoUrl
    /\ Len(sent[1].attempts) = 1 /\ ~sent[1].attempts[1].ok

SupportedExt(e) == e # NoExt /\ Lower(e) \in {"jpg", "jpeg", "png", "pdf"}

\* C4: analyze_bill_ai never raises; it returns no result when the service is
\* unconfigured, when the media kind is not JPEG, PNG or PDF, when the service
\* call errors and when the answer is not one valid JSON object (also inside a
\* ```json fence); a fenced answer gives what the unfenced answer gives.
C4_FailsClosed ==
    aiOut # <<>> =>
        LET o == aiOut[1]
            v == aiIn.svc
        IN  /\ ~o.raised
            /\ ~aiIn.key => ~o.some
            /\ ~SupportedExt(aiIn.ext) => ~o.some
            /\ v.error => ~o.some
            /\ (~v.error /\ v.tmpl \in {"twice", "empty", "barefence"}) => ~o.some
            /\ (~v.error /\ v.tmpl \in {"plain", "padded", "fenced", "fencedws"}
                  /\ v.doc.kind # "object") => ~o.some
            /\ (~v.error /\ v.tmpl \in {"fenced", "fencedws"}) =>
                  o = analyze_bill_ai(aiIn.key, aiIn.ext, SvcAnswer("plain", v.doc))

\* A fenced object answer that yields a result with a date
C4_Witness ==
    /\ aiOut # <<>> /\ ~aiIn.svc.error /\ aiIn.svc.tmpl = "fenced"
    /\ aiOut[1].some /\ aiOut[1].hasDate /\ aiOut[1].title = JStr(S_ACME)

\* C5: for every answer that decodes to a JSON object the call returns a result
\* in which a date that is not exactly YYYY-MM-DD is absent, a non-numeric
\* amount is absent, and every valid title, date and amount is preserved.
C5_FieldDegradation ==
    (aiOut # <<>> /\ aiIn.key /\ SupportedExt(aiIn.ext) /\ ~aiIn.svc.error
        /\ aiIn.svc.tmpl = "plain" /\ aiIn.svc.doc.kind = "object") =>
        LET o == aiOut[1]
            d == aiIn.svc.doc
            exact == d.date.t = "str" /\ ParseDateStrict(d.date.s).ok
        IN  /\ o.some
            /\ o.hasDate = exact
            /\ exact => o.date = ParseDateStrict(d.date.s).ord
            /\ o.amount = IF d.amount.t = "num" THEN d.amount ELSE JNull
            /\ o.title = d.title


SoleAttachment == mj.runs > 0 /\ Len(mj.msgs) = 1 /\ Len(mj.msgs[1].atts) = 1

\* C2: an invocation of process_mailbox on a mailbox with one unseen message
\* whose only attachment is a .pdf (any case) ends with exactly one Bill created
\* for the owner, exactly one new stored file and exactly one notification; with
\* a .docx as the only attachment it ends with none of the three.
C2_OnePdfOneBill ==
    (mj.pc = "idle" /\ SoleAttachment) =>
        IF IsPdfAttachment(mj.msgs[1].atts[1])
        THEN /\ Len(mj.new) = 1 /\ mj.new[1].user_id = mj.owner
             /\ mj.fresh = 1
             /\ mj.told[1] = 1
        ELSE Len(mj.new) = 0 /\ mj.fresh = 0 /\ mj.told[1] = 0

NamedBy(b, name) ==
    b.filename = name \/ \E f \in FilesOf(b) : f.filename = name

\* C7: serve_file answers not-found when no Bill and no BillFile has the
\* filename, forbidden when the resolved bill belongs to another user, and
\* streams only to the resolved bill's owner; no user is ever served a stored
\* file that belongs to another user's bill.
C7_OwnerOnlyServing ==
    resp.op = "serve" =>
        /\ (~\E b \in bills : NamedBy(b, resp.name)) => resp.code = 404
        /\ resp.code = 403 =>
              \E b \in bills : b.id = resp.id /\ NamedBy(b, resp.name)
                                  /\ b.user_id # resp.user
        /\ resp.code = 200 =>
              /\ \E b \in bills : b.id = resp.id /\ NamedBy(b, resp.name)
                                     /\ b.user_id = resp.user
              /\ ~\E b \in bills : NamedBy(b, resp.name) /\ b.user_id # resp.user

\* C8: check_due_dates keeps no suppression state: every invocation dispatches
\* a notification for every qualifying bill, also when an earlier invocation of
\* the same day already did, and it changes no bill.
C8_NoSuppression ==
    [][ (resp'.op = "check_due_dates" /\ jobSent'.runs = jobSent.runs + 1) =>
            /\ bills' = bills
            /\ \A b \in bills :
                  Qualifies(b) =>
                     /\ b.id \in DOMAIN jobSent'.cnt
                     /\ jobSent'.cnt[b.id] = Count(b.id) + 1
      ]_vars

\* Two invocations on one day have each notified about the same open bill
C8_Witness ==
    /\ resp.op = "check_due_dates" /\ jobSent.runs = 2
    /\ \E b \in bills : Qualifies(b) /\ Count(b.id) = 2 /\ NoticesFor(b.id) # {}

\* C9: when the commit of a new Bill fails in process_mailbox, only that record
\* is rolled back: the store and the upload directory stay as they are and the
\* scan goes on with the next attachment; and the stored file of the existing
\* bill that holds the conflicting filename is not changed by the job.
C9_RollbackIsolated ==
    [][ /\ (mj.pc = "commit" /\ mj'.pc = "att" /\ CommitFails(mj.pend)) =>
              /\ bills' = bills /\ billFiles' = billFiles /\ disk' = disk
              /\ mj'.new = mj.new /\ mj'.ai = mj.ai + 1 /\ mj'.mi = mj.mi
        /\ (mj.pc = "att" /\ mj'.pc = "commit") =>
              \A b \in bills :
                 (b.filename = mj'.pend.filename /\ OnDisk(b.filename)) =>
                     disk'[b.filename] = disk[b.filename]
      ]_vars

\* C10: for every message of a finished scan, exactly one notification was
\* dispatched if at least one Bill of the message was committed and none
\* otherwise; a message is notified about only once its attachments are done.
C10_OneNoticePerMessage ==
    /\ \A i \in 1..Len(mj.msgs) : mj.told[i] > 0 => mj.mi > i
    /\ (mj.pc = "idle" /\ mj.runs > 0) =>
          \A i \in 1..Len(mj.msgs) :
             mj.told[i] = IF mj.made[i] >= 1 THEN 1 ELSE 0

\* C11: every Bill created by process_mailbox has the extracted title if the
\* extraction result has one, else the subject cut to 100 characters; the
\* extracted date if present, else the ingestion date plus 30 days; the
\* extracted amount if present, an amount of 0 included, else none; and the owner
\* passed to the job. With no result the three are exactly the defaults. The
\* record that is committed is the one so built.
C11_MailBillFields ==
    [][ /\ (mj.pc = "att" /\ mj'.pc = "commit") =>
              LET ai   == mj'.ai_data
                  subj == mj.msgs[mj.mi].subject
                  b    == mj'.pend
              IN  /\ b.title = IF ai.some /\ ai.title # JNull
                                THEN Text(ai.title.s, Len(ai.title.s))
                                ELSE Prefix(subj, 100)
                  /\ b.hasDue
                  /\ b.due_date = IF ai.some /\ ai.hasDate THEN ai.date
                                   ELSE today + 30
                  /\ b.amount = IF ai.some THEN ai.amount ELSE JNull
                  /\ b.user_id = mj.owner
                  /\ Prefix(subj, 100).n <= 100
        /\ (mj.pc = "commit" /\ mj'.pc = "att" /\ bills' # bills) =>
              \E b \in bills' \ bills :
                 /\ bills' = bills \cup {b}
                 /\ [b EXCEPT !.id = 0] = mj.pend
      ]_vars

\* C12: in every reachable state, under any interleaving of the steps of mail
\* ingestion, upload and deletion, every persisted Bill record has its primary
\* stored file present in the upload directory.
C12_PrimaryFilePresent == \A b \in bills : OnDisk(b.filename)

MutatingOps == {"pay", "update_date", "edit", "delete"}

\* C13: for every user U and every bill id that does not exist or belongs to
\* another user, pay, update_date, edit_bill and delete_bill invoked by U answer
\* not-found and leave every Bill record, every BillFile record and every stored
\* file unchanged; and whenever a bill's status, title, due date, amount or
\* existence changes, the step is one of these requests made by the bill's owner
\* for that bill.
C13_OwnerOnlyMutation ==
    [][ /\ (resp'.op \in MutatingOps
               /\ ~\E b \in bills : b.id = resp'.id /\ b.user_id = resp'.user) =>
              /\ resp'.code = 404
              /\ bills' = bills /\ billFiles' = billFiles /\ disk' = disk
        /\ \A b \in bills :
              b \notin bills' =>
                 /\ resp'.op \in MutatingOps
                 /\ resp'.user = b.user_id /\ resp'.id = b.id
                 /\ resp'.code = 302
      ]_vars

\* A bill that its owner has paid and edited, and another user's edit request
\* for it answered not-found
C13_Witness ==
    /\ resp.op = "edit" /\ resp.code = 404
    /\ \E b \in bills :
          /\ b.id = resp.id /\ b.user_id # resp.user
          /\ b.status = "bezahlt" /\ b.title # PROCESSING /\ b.amount = JNum(1250)

====
